---- MODULE Spec2Model ----
(***************************************************************************)
(* Earley recognizer of src/parser.py.                                     *)
(*                                                                         *)
(* Python values are modelled as follows: a tuple or a list is a sequence  *)
(* (Python index k is TLA+ index k + 1), a namedtuple is a record, a set   *)
(* is a set.  A rule is the pair <<lhs, rhs>>.  The iteration order of a   *)
(* Python set is not fixed by the language, so a list built by iterating   *)
(* a set is any ordering of its elements.                                  *)
(***************************************************************************)
EXTENDS Integers, Sequences, FiniteSets, TLC

\* ------------------------------------------------------------------------
\* Bounds of the model.
\* ------------------------------------------------------------------------
MaxRules == 3
MaxRhs == 2
MaxTokens == 2
MaxCalls == 2

\* ------------------------------------------------------------------------
\* Input universe.
\* ------------------------------------------------------------------------
Nonterminals == {"a", "b"}
Terminals == {"0", "1"}
\* symbols that may occur in a right-hand side; the terminal "1" occurs in
\* token sequences only, as a token no rule can match
RuleSymbols == {"a", "b", "0"}
Sentinel == ""

SeqsUpTo(S, n) == UNION {[1..k -> S] : k \in 0..n}

SymbolRank(s) == CASE s = "a" -> 1 [] s = "b" -> 2 [] s = "0" -> 3 [] OTHER -> 4

RECURSIVE RhsKey(_)
RhsKey(rhs) == IF rhs = <<>> THEN 0 ELSE SymbolRank(Head(rhs)) + 5 * RhsKey(Tail(rhs))

\* a total order on rules, used only to enumerate each rule set once
RuleKey(rule) == 1000 * SymbolRank(rule[1]) + 200 * Len(rule[2]) + RhsKey(rule[2])

AllRules == {<<l, r>> : l \in Nonterminals, r \in SeqsUpTo(RuleSymbols, MaxRhs)}

RuleLists ==
    {rs \in SeqsUpTo(AllRules, MaxRules) :
        \A k \in 1..(Len(rs) - 1) : RuleKey(rs[k]) < RuleKey(rs[k + 1])}

Grammars == {[rules |-> rs, terminals |-> Terminals, start |-> "a"] : rs \in RuleLists}

TokenLists == SeqsUpTo(Terminals, MaxTokens)

\* ------------------------------------------------------------------------
\* Python sequence helpers.
\* ------------------------------------------------------------------------
Min(x, y) == IF x < y THEN x ELSE y

\* s[lo:hi] for 0 <= lo, 0 <= hi: out-of-range ends are clamped
Slice(s, lo, hi) == SubSeq(s, lo + 1, Min(hi, Len(s)))

\* s[lo:]
SliceFrom(s, lo) == SubSeq(s, lo + 1, Len(s))

\* [f(x) for x in s]
MapSeq(f(_), s) == [k \in 1..Len(s) |-> f(s[k])]

\* the lists that hold each element of the set S exactly once
Orderings(S) ==
    {f \in [1..Cardinality(S) -> S] : \A j, k \in 1..Cardinality(S) : f[j] = f[k] => j = k}

\* ------------------------------------------------------------------------
\* Item model.
\* ------------------------------------------------------------------------
Item(lhs, done, rest, i) == [lhs |-> lhs, done |-> done, rest |-> rest, i |-> i]

\* initial_item with the origin argument ignored (the default i=0 always used)
initial_item_origin_zero(rule, i) == Item(rule[1], <<>>, rule[2], 0)

initial_item(rule, i) == Item(rule[1], <<>>, rule[2], i)

\* predictions with the predicting item's origin given to the new items
predictions_item_origin(item, grammar, i) ==
    IF item.rest = <<>> \/ item.rest[1] \in grammar.terminals
    THEN <<>>
    ELSE LET matching == SelectSeq(grammar.rules, LAMBDA rule : rule[1] = item.rest[1])
         IN  [k \in 1..Len(matching) |-> Item(matching[k][1], <<>>, matching[k][2], item.i)]

\* predictions with the matching rules taken last to first
predictions_reversed(item, grammar, i) ==
    IF item.rest = <<>> \/ item.rest[1] \in grammar.terminals
    THEN <<>>
    ELSE LET matching == SelectSeq(grammar.rules, LAMBDA rule : rule[1] = item.rest[1])
         IN  [k \in 1..Len(matching) |-> initial_item(matching[Len(matching) + 1 - k], i)]

predictions(item, grammar, i) ==
    IF item.rest = <<>> \/ item.rest[1] \in grammar.terminals
    THEN <<>>
    ELSE LET matching == SelectSeq(grammar.rules, LAMBDA rule : rule[1] = item.rest[1])
             mk(rule) == initial_item(rule, i)
         IN  MapSeq(mk, matching)

\* advance with the consumed symbol dropped instead of appended to done
advance_drop_symbol(item) ==
    Item(item.lhs, item.done, SliceFrom(item.rest, 1), item.i)

\* advance with rest[1:] forgotten: the symbol is copied, not moved
advance_keep_rest(item) ==
    Item(item.lhs, item.done \o Slice(item.rest, 0, 1), item.rest, item.i)

advance(item) ==
    Item(item.lhs, item.done \o Slice(item.rest, 0, 1), SliceFrom(item.rest, 1), item.i)

\* states[item.i] exists (Python raises IndexError otherwise; item.i >= 0)
CompletionsDefined(item, states) == item.i < Len(states)

\* completions looking back to the last finished state instead of states[item.i]
completions_last_state(item, states) ==
    Orderings({advance(prev) :
                 prev \in {p \in states[Len(states)] : p.rest # <<>> /\ p.rest[1] = item.lhs}})

\* the possible results of completions(item, states): one list per iteration
\* order of the set states[item.i]
completions(item, states) ==
    Orderings({advance(prev) :
                 prev \in {p \in states[item.i + 1] : p.rest # <<>> /\ p.rest[1] = item.lhs}})


\* final_item without the test item.i == 0
final_item_any_origin(states, grammar) ==
    {item \in states[Len(states)] : item.lhs = grammar.start /\ item.rest = <<>>}

\* the items final_item may return: the matching items of states[-1], whichever
\* comes first in the set's iteration order; the empty set stands for None
final_item(states, grammar) ==
    {item \in states[Len(states)] :
        item.lhs = grammar.start /\ item.i = 0 /\ item.rest = <<>>}

\* tokens += [""]
WithSentinel(tokens) == tokens \o <<Sentinel>>

\* a loop over the caller's tokens only, without the sentinel step
LoopSkipsSentinel(i, tokens) == i < Len(tokens) - 1

\* for i,t in enumerate(tokens): there is a token at index i
LoopHasNext(i, tokens) == i < Len(tokens)

\* items[0] read without being removed
PeekRest(items) == items

\* what is left of the worklist after items.pop(0)
PopRest(items) == Tail(items)

\* ------------------------------------------------------------------------
\* State.
\* ------------------------------------------------------------------------
VARIABLES
    grammar,      \* the caller's grammar
    tokens,       \* the caller's token list (one object across calls)
    entryTokens,  \* contents of the token list when the current call began
    states,       \* earley_table: states
    items,        \* earley_table: items (the worklist)
    next_items,   \* earley_table: next_items
    state,        \* earley_table: state
    i,            \* earley_table: index of the for loop
    pc,           \* "idle" | "for" | "while" | "fault"
    result,       \* outcome of the last call: "none" | "True" | "False" | "IndexError"
    results,      \* the booleans returned by the calls made so far
    calls,        \* number of calls of recognizer made so far
    arg,          \* argument of a direct call of advance
    out           \* outcome of a direct call of advance

vars == <<grammar, tokens, entryTokens, states, items, next_items, state, i, pc,
          result, results, calls, arg, out>>

NoItem == Item("", <<>>, <<>>, 0)
NoOut == [status |-> "none", item |-> NoItem]

BoolString(b) == IF b THEN "True" ELSE "False"

\* the lookahead token of the current iteration
t == tokens[i + 1]

Init ==
    /\ grammar \in Grammars
    /\ tokens \in TokenLists
    /\ entryTokens = <<>>
    /\ states = <<>>
    /\ items = <<>>
    /\ next_items = <<>>
    /\ state = {}
    /\ i = 0
    /\ pc = "idle"
    /\ result = "none"
    /\ results = <<>>
    /\ calls = 0
    /\ arg = NoItem
    /\ out = NoOut

\* recognizer(grammar, tokens) is called: earley_table runs up to the for loop
Call ==
    /\ pc = "idle"
    /\ calls < MaxCalls
    /\ calls' = calls + 1
    /\ entryTokens' = tokens
    /\ states' = <<>>
    /\ items' = <<>>
    /\ next_items' = MapSeq(LAMBDA rule : initial_item(rule, 0),
                            SelectSeq(grammar.rules, LAMBDA rule : rule[1] = grammar.start))
    /\ tokens' = WithSentinel(tokens)
    /\ state' = {}
    /\ i' = 0
    /\ pc' = "for"
    /\ result' = "none"
    /\ UNCHANGED <<grammar, results, arg, out>>

\* the for loop with state.clear() in place of state = set(): the set just
\* appended to states is the same object and is emptied with it
ForNextClearsSealed ==
    /\ pc = "for"
    /\ LoopHasNext(i, tokens)
    /\ items' = next_items
    /\ next_items' = <<>>
    /\ state' = {}
    /\ states' = IF states = <<>> THEN states ELSE [states EXCEPT ![Len(states)] = {}]
    /\ pc' = "while"
    /\ UNCHANGED <<grammar, tokens, entryTokens, i, result, results, calls, arg, out>>

\* the for loop takes the next token
ForNext ==
    /\ pc = "for"
    /\ LoopHasNext(i, tokens)
    /\ items' = next_items
    /\ next_items' = <<>>
    /\ state' = {}
    /\ pc' = "while"
    /\ UNCHANGED <<grammar, tokens, entryTokens, states, i, result, results, calls, arg, out>>

\* while body, item already in state
Discard ==
    /\ pc = "while"
    /\ items # <<>>
    /\ Head(items) \in state
    /\ items' = PopRest(items)
    /\ UNCHANGED <<grammar, tokens, entryTokens, states, next_items, state, i, pc,
                   result, results, calls, arg, out>>

\* while body, new complete item
Complete ==
    /\ pc = "while"
    /\ items # <<>>
    /\ LET item == Head(items) IN
        /\ item \notin state
        /\ item.rest = <<>>
        /\ state' = state \cup {item}
        /\ IF CompletionsDefined(item, states)
           THEN /\ \E parents \in completions(item, states) :
                      items' = PopRest(items) \o parents
                /\ UNCHANGED <<pc, result>>
           ELSE /\ items' = PopRest(items)
                /\ pc' = "fault"
                /\ result' = "IndexError"
    /\ UNCHANGED <<grammar, tokens, entryTokens, states, next_items, i, results, calls,
                   arg, out>>

\* the scan branch with the advanced item pushed onto the current worklist
ScanIntoWorklist ==
    /\ pc = "while"
    /\ items # <<>>
    /\ LET item == Head(items) IN
        /\ item \notin state
        /\ item.rest # <<>>
        /\ item.rest[1] \in grammar.terminals /\ item.rest[1] = t
        /\ state' = state \cup {item}
        /\ items' = PopRest(items) \o <<advance(item)>>
    /\ UNCHANGED <<grammar, tokens, entryTokens, states, next_items, i, pc, result,
                   results, calls, arg, out>>

\* the scan branch without the comparison with the lookahead token
ScanAnyTerminal ==
    /\ pc = "while"
    /\ items # <<>>
    /\ LET item == Head(items) IN
        /\ item \notin state
        /\ item.rest # <<>>
        /\ item.rest[1] \in grammar.terminals
        /\ state' = state \cup {item}
        /\ items' = PopRest(items)
        /\ next_items' = next_items \o <<advance(item)>>
    /\ UNCHANGED <<grammar, tokens, entryTokens, states, i, pc, result, results, calls,
                   arg, out>>

\* while body, new item whose next symbol is the lookahead terminal
Scan ==
    /\ pc = "while"
    /\ items # <<>>
    /\ LET item == Head(items) IN
        /\ item \notin state
        /\ item.rest # <<>>
        /\ item.rest[1] \in grammar.terminals /\ item.rest[1] = t
        /\ state' = state \cup {item}
        /\ items' = PopRest(items)
        /\ next_items' = next_items \o <<advance(item)>>
    /\ UNCHANGED <<grammar, tokens, entryTokens, states, i, pc, result, results, calls,
                   arg, out>>

\* while body, any other new item
Predict ==
    /\ pc = "while"
    /\ items # <<>>
    /\ LET item == Head(items) IN
        /\ item \notin state
        /\ item.rest # <<>>
        /\ ~(item.rest[1] \in grammar.terminals /\ item.rest[1] = t)
        /\ state' = state \cup {item}
        /\ items' = PopRest(items) \o predictions(item, grammar, i)
    /\ UNCHANGED <<grammar, tokens, entryTokens, states, next_items, i, pc, result,
                   results, calls, arg, out>>

\* the worklist is empty: states.append(state), and the for loop goes on
Seal ==
    /\ pc = "while"
    /\ items = <<>>
    /\ states' = Append(states, state)
    /\ i' = i + 1
    /\ pc' = "for"
    /\ UNCHANGED <<grammar, tokens, entryTokens, items, next_items, state, result,
                   results, calls, arg, out>>

\* the for loop is over: earley_table returns states, recognizer its boolean
\* (states[-1] raises IndexError on an empty table)
Return ==
    /\ pc = "for"
    /\ ~LoopHasNext(i, tokens)
    /\ IF states = <<>>
       THEN /\ result' = "IndexError"
            /\ pc' = "fault"
            /\ UNCHANGED results
       ELSE /\ result' = BoolString(final_item(states, grammar) # {})
            /\ results' = Append(results, result')
            /\ pc' = "idle"
    /\ UNCHANGED <<grammar, tokens, entryTokens, states, items, next_items, state, i,
                   calls, arg, out>>

\* advance(arg) is called directly
CallAdvance ==
    /\ out.status = "none"
    /\ arg # NoItem
    /\ out' = [status |-> "returned", item |-> advance(arg)]
    /\ UNCHANGED <<grammar, tokens, entryTokens, states, items, next_items, state, i, pc,
                   result, results, calls, arg>>

Next ==
    \/ Call
    \/ ForNext
    \/ Discard
    \/ Complete
    \/ Scan
    \/ Predict
    \/ Seal
    \/ Return

\* the steps of a running call
Step == ForNext \/ Discard \/ Complete \/ Scan \/ Predict \/ Seal \/ Return

Spec == Init /\ [][Next]_vars

\* a call that has started runs on: the program is sequential and nothing
\* suspends it
FairSpec == Spec /\ WF_vars(Step)

\* ------------------------------------------------------------------------
\* Direct calls of advance on arbitrary items.
\* ------------------------------------------------------------------------
ItemUniverse ==
    {Item(l, d, r, o) : l \in Nonterminals,
                        d \in SeqsUpTo(RuleSymbols, MaxRhs),
                        r \in SeqsUpTo(RuleSymbols, MaxRhs),
                        o \in 0..MaxTokens}

InitAdvance ==
    /\ grammar = [rules |-> <<>>, terminals |-> Terminals, start |-> "a"]
    /\ tokens = <<>>
    /\ entryTokens = <<>>
    /\ states = <<>>
    /\ items = <<>>
    /\ next_items = <<>>
    /\ state = {}
    /\ i = 0
    /\ pc = "idle"
    /\ result = "none"
    /\ results = <<>>
    /\ calls = 0
    /\ arg \in ItemUniverse
    /\ out = NoOut

NextAdvance == CallAdvance

SpecAdvance == InitAdvance /\ [][NextAdvance]_vars

\* ------------------------------------------------------------------------
\* Reference notions the properties are stated against.
\* ------------------------------------------------------------------------
\* a call has been made and has returned its boolean
Returned == pc = "idle" /\ calls >= 1

\* a call has been made and has ended, with a boolean or with an exception
Ended == pc \in {"idle", "fault"} /\ calls >= 1

\* the symbol X derives w[p+1..q], given the triples D already derived
SymSpans(g, w, D, X, p, q) ==
    IF X \in g.terminals THEN q = p + 1 /\ w[q] = X ELSE <<X, p, q>> \in D

RECURSIVE SeqSpans(_, _, _, _, _, _)
SeqSpans(g, w, D, alpha, p, q) ==
    IF alpha = <<>>
    THEN p = q
    ELSE \E k \in p..q : /\ SymSpans(g, w, D, Head(alpha), p, k)
                         /\ SeqSpans(g, w, D, Tail(alpha), k, q)

RECURSIVE DeriveClosure(_, _, _)
DeriveClosure(g, w, D) ==
    LET D2 == D \cup {<<g.rules[r][1], p, q>> : r \in DOMAIN g.rules, p \in 0..Len(w), q \in 0..Len(w)}
        D3 == {d \in D2 : \/ d \in D
                          \/ \E r \in DOMAIN g.rules :
                                /\ g.rules[r][1] = d[1]
                                /\ d[2] <= d[3]
                                /\ SeqSpans(g, w, D, g.rules[r][2], d[2], d[3])}
    IN  IF D3 = D THEN D ELSE DeriveClosure(g, w, D3)

\* w is in the language g generates from its start symbol
InLanguage(g, w) == <<g.start, 0, Len(w)>> \in DeriveClosure(g, w, {})

RECURSIVE NullableClosure(_, _)
NullableClosure(g, N) ==
    LET N2 == N \cup {g.rules[r][1] : r \in {r \in DOMAIN g.rules :
                                               \A k \in DOMAIN g.rules[r][2] : g.rules[r][2][k] \in N}}
    IN  IF N2 = N THEN N ELSE NullableClosure(g, N2)

\* the nonterminals that derive the empty string
Nullable(g) == NullableClosure(g, {})

RECURSIVE SumLen(_, _)
SumLen(rules, k) == IF k = 0 THEN 0 ELSE Len(rules[k][2]) + SumLen(rules, k - 1)

\* the number of symbols in all right-hand sides of the grammar
TotalRhsLen(g) == SumLen(g.rules, Len(g.rules))

\* ------------------------------------------------------------------------
\* Properties.
\* ------------------------------------------------------------------------

\* C1: whenever a call of recognizer ends, it has returned True if the token
\* sequence it was given is in the language of the grammar, and False if not.
C1_RecognizerDecidesLanguage ==
    Ended => result = BoolString(InLanguage(grammar, entryTokens))

\* C2: the boolean recognizer returns is True exactly when the last state of
\* the table holds a complete item of the start symbol with origin 0.
C2_ResultIsFinalItemOfLastState ==
    Returned =>
        /\ result \in {"True", "False"}
        /\ result = "True" <=>
              \E item \in states[Len(states)] :
                  item.lhs = grammar.start /\ item.i = 0 /\ item.rest = <<>>

C2_Witness ==
    /\ Returned
    /\ result = "True"
    /\ Len(entryTokens) >= 1

\* C3: all calls of recognizer on the same grammar and the same token list
\* object return the same boolean.
C3_SameResultOnEveryCall ==
    \A j, k \in DOMAIN results : results[j] = results[k]

\* C4: when a call has returned, the caller's token list holds what it held
\* when the call began.
C4_CallerTokensUnchanged ==
    Returned => tokens = entryTokens

\* C5: a call on the empty token sequence ends with True if the start symbol
\* derives the empty string and with False if it does not.
C5_EmptyInputIffNullable ==
    (Ended /\ entryTokens = <<>>) =>
        result = BoolString(grammar.start \in Nullable(grammar))

\* C6: the table a call returns has one state per token it was given plus
\* one, and the last state is the one built at the sentinel.
C6_TableHasOneStatePerPosition ==
    Returned =>
        /\ Len(states) = Len(entryTokens) + 1
        /\ tokens[Len(states)] = Sentinel

C6_Witness ==
    /\ Returned
    /\ Len(entryTokens) = MaxTokens
    /\ Len(states) = MaxTokens + 1

\* C7 as stated: state i of a returned table has at most |rules| * (i + 1)
\* items.
C7_StateSizeWithinRulesTimesPositions ==
    Returned =>
        \A k \in DOMAIN states : Cardinality(states[k]) <= Len(grammar.rules) * k

\* C7 as amended: state i of a returned table has at most
\* |rules| + i * (number of symbols in all right-hand sides) items.
C7_StateSizeWithinDottedRules ==
    Returned =>
        \A k \in DOMAIN states :
            Cardinality(states[k]) <= Len(grammar.rules) + (k - 1) * TotalRhsLen(grammar)

C7_Witness ==
    /\ Returned
    /\ \E k \in DOMAIN states : Cardinality(states[k]) > Len(grammar.rules) * k

\* C8: a call that is running ends: every position's worklist runs empty and
\* the for loop runs out of tokens.
C8_TableConstructionTerminates ==
    (pc \in {"for", "while"}) ~> (pc \in {"idle", "fault"})

\* an item of a left-recursive rule is predicted again and found in the state
C8_Witness ==
    /\ pc = "while"
    /\ items # <<>>
    /\ Head(items) \in state
    /\ Head(items).done = <<>>
    /\ Head(items).rest # <<>>
    /\ Head(items).rest[1] = Head(items).lhs

\* C9: advance on an item with symbols left returns an item with the same lhs
\* and origin, the first symbol of rest moved to the end of done.
C9_AdvanceMovesOneSymbol ==
    (out.status # "none" /\ arg.rest # <<>>) =>
        /\ out.status = "returned"
        /\ out.item.lhs = arg.lhs
        /\ out.item.i = arg.i
        /\ out.item.done = Append(arg.done, Head(arg.rest))
        /\ out.item.rest = Tail(arg.rest)
        /\ out.item.done \o out.item.rest = arg.done \o arg.rest

C9_Witness ==
    /\ out.status = "returned"
    /\ Len(arg.rest) = 2
    /\ arg.done # <<>>

\* C10: advance on an item with no symbols left raises and returns no item.
C10_AdvanceFailsOnCompleteItem ==
    (out.status # "none" /\ arg.rest = <<>>) => out.status = "fault"

\* ------------------------------------------------------------------------
\* Direct calls of predictions on arbitrary items, grammars and positions.
\* ------------------------------------------------------------------------
\* predictions(arg, grammar, i) and completions(arg, states) do not read
\* arg.done: the arguments of the direct calls below have it empty
CallArguments ==
    {Item(l, <<>>, r, o) : l \in Nonterminals,
                           r \in SeqsUpTo(RuleSymbols \cup Terminals, MaxRhs),
                           o \in 0..MaxTokens}

InitPredictions ==
    /\ grammar \in Grammars
    /\ tokens = <<>>
    /\ entryTokens = <<>>
    /\ states = <<>>
    /\ items = <<>>
    /\ next_items = <<>>
    /\ state = {}
    /\ i \in 0..MaxTokens
    /\ pc = "idle"
    /\ result = "none"
    /\ results = <<>>
    /\ calls = 0
    /\ arg \in CallArguments
    /\ out = NoOut

\* predictions(arg, grammar, i) is called directly
CallPredictions ==
    /\ out.status = "none"
    /\ out' = [status |-> "returned", list |-> predictions(arg, grammar, i)]
    /\ UNCHANGED <<grammar, tokens, entryTokens, states, items, next_items, state, i, pc,
                   result, results, calls, arg>>

NextPredictions == CallPredictions

SpecPredictions == InitPredictions /\ [][NextPredictions]_vars

\* the initial items, with origin o, of the rules for sym, in rule order
RECURSIVE InitialItemsFor(_, _, _)
InitialItemsFor(rules, sym, o) ==
    IF rules = <<>>
    THEN <<>>
    ELSE (IF Head(rules)[1] = sym
          THEN <<[lhs |-> sym, done |-> <<>>, rest |-> Head(rules)[2], i |-> o]>>
          ELSE <<>>) \o InitialItemsFor(Tail(rules), sym, o)

\* C11: predictions returns the initial items, with origin i, of the rules for
\* the item's next symbol, in rule order, when that symbol is a nonterminal,
\* and the empty list when the item is complete or its next symbol a terminal.
C11_PredictionsAreInitialItemsInRuleOrder ==
    (out.status = "returned") =>
        out.list = IF arg.rest = <<>> \/ Head(arg.rest) \in grammar.terminals
                   THEN <<>>
                   ELSE InitialItemsFor(grammar.rules, Head(arg.rest), i)

C11_Witness ==
    /\ out.status = "returned"
    /\ Len(out.list) >= 2
    /\ arg.i # i
    /\ out.list[1].rest # out.list[2].rest

\* ------------------------------------------------------------------------
\* Properties of the table under construction.
\* ------------------------------------------------------------------------
\* the next unconsumed symbol of item is sym
NextSymbolIs(item, sym) == item.rest # <<>> /\ Head(item.rest) = sym

\* item with its next symbol moved from rest to done
Advanced(item) ==
    [lhs |-> item.lhs, done |-> Append(item.done, Head(item.rest)),
     rest |-> Tail(item.rest), i |-> item.i]

\* the elements of a list
Elements(list) == {list[k] : k \in DOMAIN list}

\* C12: table construction never ends in an internal fault: a complete item
\* that is processed always finds the state of its origin.
C12_NoInternalFault ==
    /\ pc # "fault"
    /\ (pc = "while" /\ items # <<>> /\ Head(items).rest = <<>>) =>
           Head(items).i <= i

\* C13: in every finished state i, every rule for the next symbol of an item,
\* when that symbol is a nonterminal, has its initial item with origin i.
C13_StatesClosedUnderPrediction ==
    \A k \in DOMAIN states :
        \A item \in states[k] :
            (item.rest # <<>> /\ Head(item.rest) \notin grammar.terminals) =>
                \A r \in DOMAIN grammar.rules :
                    grammar.rules[r][1] = Head(item.rest) =>
                        [lhs |-> grammar.rules[r][1], done |-> <<>>,
                         rest |-> grammar.rules[r][2], i |-> k - 1] \in states[k]

\* a finished state of a later position predicts from an item of earlier origin
C13_Witness ==
    \E k \in DOMAIN states :
        /\ k >= 2
        /\ \E item \in states[k] :
              /\ item.i < k - 1
              /\ item.rest # <<>>
              /\ \E r \in DOMAIN grammar.rules : grammar.rules[r][1] = Head(item.rest)

\* C14: in every finished state i, for every complete item c and every item p
\* of the state at c's origin that waits for c.lhs, p advanced is in state i.
C14_StatesClosedUnderCompletion ==
    \A k \in DOMAIN states :
        \A c \in states[k] :
            c.rest = <<>> =>
                /\ c.i + 1 \in DOMAIN states
                /\ \A p \in states[c.i + 1] :
                      NextSymbolIs(p, c.lhs) => Advanced(p) \in states[k]

\* a complete item whose origin is neither 0 nor the previous position's
\* neighbour has a parent that is advanced
C14_Witness ==
    \E k \in DOMAIN states :
        \E c \in states[k] :
            /\ c.rest = <<>>
            /\ c.i >= 1
            /\ c.i + 1 < k
            /\ \E p \in states[c.i + 1] : NextSymbolIs(p, c.lhs)

\* the items of the state S that scan the token tok
Scanning(S, tok) ==
    {item \in S : /\ item.rest # <<>>
                  /\ Head(item.rest) \in grammar.terminals
                  /\ Head(item.rest) = tok}

\* C15: while position i is built and when it is finished, the seed of
\* position i + 1 holds exactly the advanced forms of the items of state i
\* whose next symbol is the lookahead terminal, once each; a step that
\* scans, or that takes an item led by another terminal, adds nothing to the
\* worklist of position i.
C15_SeedIsExactlyTheScannedItems ==
    /\ [](pc = "while" =>
            /\ Elements(next_items) = {Advanced(item) : item \in Scanning(state, t)}
            /\ Len(next_items) = Cardinality(Scanning(state, t)))
    /\ [](pc = "for" /\ states # <<>> =>
            Elements(next_items) =
                {Advanced(item) :
                    item \in Scanning(states[Len(states)], tokens[Len(states)])})
    /\ [][(/\ pc = "while"
           /\ pc' = "while"
           /\ items # <<>>
           /\ Head(items).rest # <<>>
           /\ Head(Head(items).rest) \in grammar.terminals)
          => /\ items' = Tail(items)
             /\ (Head(Head(items).rest) # t => next_items' = next_items)]_vars

\* an item that was scanned at the previous position is about to be taken and
\* its next symbol is a terminal that is not the lookahead
C15_Witness ==
    /\ pc = "while"
    /\ i >= 1
    /\ items # <<>>
    /\ Head(items) \notin state
    /\ Head(items).done # <<>>
    /\ Head(items).rest # <<>>
    /\ Head(Head(items).rest) \in grammar.terminals
    /\ Head(Head(items).rest) # t

\* matched + remaining of item is the right-hand side of a rule for item.lhs
IsDottedRule(item) ==
    \E r \in DOMAIN grammar.rules :
        /\ grammar.rules[r][1] = item.lhs
        /\ grammar.rules[r][2] = item.done \o item.rest

\* C16: every item of the worklist, of the seed of the next position, of the
\* state under construction and of the finished states is a dotted rule of
\* the grammar.
C16_ItemsAreDottedRules ==
    /\ \A k \in DOMAIN items : IsDottedRule(items[k])
    /\ \A k \in DOMAIN next_items : IsDottedRule(next_items[k])
    /\ \A item \in state : IsDottedRule(item)
    /\ \A k \in DOMAIN states : \A item \in states[k] : IsDottedRule(item)

C16_Witness ==
    /\ pc = "while"
    /\ states # <<>>
    /\ next_items # <<>>
    /\ \E k \in DOMAIN items : items[k].done # <<>> /\ items[k].rest # <<>>

\* C17: within a call, a step keeps every finished state as it is and only
\* appends to the table, and the position either stays or moves on by one;
\* the position under construction is the number of finished states.
C17_FinishedStatesAreFrozen ==
    /\ [][calls' = calls =>
            /\ Len(states') >= Len(states)
            /\ SubSeq(states', 1, Len(states)) = states
            /\ i' \in {i, i + 1}]_vars
    /\ [](pc \in {"for", "while"} => i = Len(states))

\* position 2 is under construction and the states of positions 0 and 1 hold
\* items
C17_Witness ==
    /\ pc = "while"
    /\ Len(states) = 2
    /\ states[1] # {}
    /\ states[2] # {}
    /\ state # {}

\* C20: in every finished state i and in the state under construction, every
\* item has origin at most i, and every item with nothing matched has origin i.
C20_OriginsWithinPosition ==
    /\ \A k \in DOMAIN states :
          \A item \in states[k] :
              /\ item.i <= k - 1
              /\ item.done = <<>> => item.i = k - 1
    /\ pc = "while" =>
          \A item \in state :
              /\ item.i <= i
              /\ item.done = <<>> => item.i = i

C20_Witness ==
    \E k \in DOMAIN states :
        /\ k >= 2
        /\ \E item \in states[k] : item.done = <<>> /\ item.i = k - 1
        /\ \E item \in states[k] : item.done # <<>> /\ item.i < k - 1

\* ------------------------------------------------------------------------
\* Direct calls of completions on the tables earley_table returns.
\* ------------------------------------------------------------------------
\* completions(item, prefix) is called directly, for an item of a returned
\* table and a prefix states[0:n] of that table
CallCompletions ==
    /\ pc = "idle"
    /\ calls >= 1
    /\ out.status = "none"
    /\ \E n \in 0..Len(states) :
          \E item \in UNION {states[k] : k \in DOMAIN states} :
              LET prefix == SubSeq(states, 1, n) IN
              /\ arg' = item
              /\ IF CompletionsDefined(item, prefix)
                 THEN \E list \in completions(item, prefix) :
                          out' = [status |-> "returned", list |-> list]
                 ELSE out' = [status |-> "IndexError", list |-> <<>>]
    /\ UNCHANGED <<grammar, tokens, entryTokens, states, items, next_items, state, i, pc,
                   result, results, calls>>

\* the caller builds tables, then calls completions once
BuildTable == out.status = "none" /\ Next

NextCompletions == BuildTable \/ CallCompletions

SpecCompletions == Init /\ [][NextCompletions]_vars

\* C19: completions returns no parent items for an item that still has
\* unprocessed symbols.
C19_NoCompletionsForIncompleteItem ==
    (out.status = "returned" /\ arg.rest # <<>>) => out.list = <<>>

\* ------------------------------------------------------------------------
\* The same construction with the worklist items taken in any order.
\* ------------------------------------------------------------------------
\* what is left of the list after list.pop(k - 1)
RemoveAt(list, k) == SubSeq(list, 1, k - 1) \o SubSeq(list, k + 1, Len(list))

\* a number for each item, different items having different numbers
ItemKey(item) ==
    ((SymbolRank(item.lhs) * 1000 + RhsKey(item.done)) * 1000 + RhsKey(item.rest)) * 100
        + item.i

\* the list with its items in increasing ItemKey order.  When items are taken
\* from any index, a list stands for the multiset of its items: the steps
\* below keep the worklist and the seed sorted, one list for each multiset.
Sorted(list) == SortSeq(list, LAMBDA x, y : ItemKey(x) < ItemKey(y))

\* the while body with `break` where an item already in the state is skipped
WhileBodyBreaksOnDuplicate(k) ==
    /\ pc = "while"
    /\ k \in DOMAIN items
    /\ LET item == items[k]
           others == RemoveAt(items, k)
       IN  IF item \in state
           THEN /\ items' = <<>>
                /\ UNCHANGED <<state, next_items, pc, result>>
           ELSE /\ state' = state \cup {item}
                /\ IF item.rest = <<>>
                   THEN IF CompletionsDefined(item, states)
                        THEN /\ \E parents \in completions(item, states) :
                                    items' = Sorted(others \o parents)
                             /\ UNCHANGED <<next_items, pc, result>>
                        ELSE /\ items' = others
                             /\ pc' = "fault"
                             /\ result' = "IndexError"
                             /\ UNCHANGED next_items
                   ELSE IF item.rest[1] \in grammar.terminals /\ item.rest[1] = t
                        THEN /\ items' = others
                             /\ next_items' = Sorted(next_items \o <<advance(item)>>)
                             /\ UNCHANGED <<pc, result>>
                        ELSE /\ items' = Sorted(others \o predictions(item, grammar, i))
                             /\ UNCHANGED <<next_items, pc, result>>
    /\ UNCHANGED <<grammar, tokens, entryTokens, states, i, results, calls, arg, out>>

\* the while body of earley_table with items.pop(k - 1) in place of
\* items.pop(0): k = 1 is the code's first-in-first-out order
WhileBodyAt(k) ==
    /\ pc = "while"
    /\ k \in DOMAIN items
    /\ LET item == items[k]
           others == RemoveAt(items, k)
       IN  IF item \in state
           THEN /\ items' = others
                /\ UNCHANGED <<state, next_items, pc, result>>
           ELSE /\ state' = state \cup {item}
                /\ IF item.rest = <<>>
                   THEN IF CompletionsDefined(item, states)
                        THEN /\ \E parents \in completions(item, states) :
                                    items' = Sorted(others \o parents)
                             /\ UNCHANGED <<next_items, pc, result>>
                        ELSE /\ items' = others
                             /\ pc' = "fault"
                             /\ result' = "IndexError"
                             /\ UNCHANGED next_items
                   ELSE IF item.rest[1] \in grammar.terminals /\ item.rest[1] = t
                        THEN /\ items' = others
                             /\ next_items' = Sorted(next_items \o <<advance(item)>>)
                             /\ UNCHANGED <<pc, result>>
                        ELSE /\ items' = Sorted(others \o predictions(item, grammar, i))
                             /\ UNCHANGED <<next_items, pc, result>>
    /\ UNCHANGED <<grammar, tokens, entryTokens, states, i, results, calls, arg, out>>

WhileBodyAnyOrder == \E k \in DOMAIN items : WhileBodyAt(k)

\* the first call of recognizer: one table is built
FirstCall == calls = 0 /\ Call

NextAnyOrder ==
    \/ FirstCall
    \/ ForNext
    \/ WhileBodyAnyOrder
    \/ Seal
    \/ Return

SpecAnyOrder == Init /\ [][NextAnyOrder]_vars

\* the items that prediction and completion add to the set S at position
\* pos, given the finished states T of the earlier positions
RefStep(g, T, pos, S) ==
    S \cup {[lhs |-> g.rules[r][1], done |-> <<>>, rest |-> g.rules[r][2], i |-> pos] :
               r \in {r \in DOMAIN g.rules :
                        \E item \in S : /\ item.rest # <<>>
                                        /\ Head(item.rest) \notin g.terminals
                                        /\ Head(item.rest) = g.rules[r][1]}}
      \cup UNION {{Advanced(p) : p \in {p \in (IF c.i = pos THEN S ELSE T[c.i + 1]) :
                                          NextSymbolIs(p, c.lhs)}} :
                     c \in {c \in S : c.rest = <<>>}}

RECURSIVE RefClosure(_, _, _, _)
RefClosure(g, T, pos, S) ==
    LET S2 == RefStep(g, T, pos, S)
    IN  IF S2 = S THEN S ELSE RefClosure(g, T, pos, S2)

\* the seed of position pos: the start rules at 0, the items of the previous
\* state that scan the previous token elsewhere
RefSeed(g, w, T, pos) ==
    IF pos = 0
    THEN {[lhs |-> g.rules[r][1], done |-> <<>>, rest |-> g.rules[r][2], i |-> 0] :
             r \in {r \in DOMAIN g.rules : g.rules[r][1] = g.start}}
    ELSE {Advanced(item) :
             item \in {item \in T[pos] : /\ item.rest # <<>>
                                         /\ Head(item.rest) \in g.terminals
                                         /\ Head(item.rest) = w[pos]}}

\* the Earley sets of positions 0..n-1 for the tokens w, as a closure that
\* names no processing order
RECURSIVE RefTable(_, _, _)
RefTable(g, w, n) ==
    IF n = 0
    THEN <<>>
    ELSE LET T == RefTable(g, w, n - 1)
         IN  Append(T, RefClosure(g, T, n - 1, RefSeed(g, w, T, n - 1)))

\* C18: whichever order the worklist items are taken in, the finished states
\* are the closure sets of their positions, and the seed of the next position
\* is the set scanned from the last finished state.
C18_StatesDoNotDependOnOrder ==
    (pc = "for" /\ states # <<>>) =>
        /\ states = RefTable(grammar, tokens, Len(states))
        /\ Elements(next_items) = RefSeed(grammar, tokens, states, Len(states))

\* a finished state of several items with two or more seeds for the next
\* position: its worklist could be taken in more than one order
C18_Witness ==
    /\ pc = "for"
    /\ Len(states) >= 2
    /\ Cardinality(states[Len(states)]) >= 4
    /\ Len(next_items) >= 2

====
